---- MODULE Spec2Model ----
(***************************************************************************)
(* pacco: a client-side artifact registry.  A PackageManagerFileBased      *)
(* holds named PackageRegistryFileBased objects; a registry holds binaries *)
(* addressed by an assignment of its parameters; all of them are stored as *)
(* directories through a FileBasedClientAbstract (LocalClient or           *)
(* NexusFileClient).                                                       *)
(*                                                                         *)
(* A string is a sequence of one-character strings, so that the codec      *)
(* (join, split, regular-expression match) is computed as the code         *)
(* computes it.  The storage is the set of the paths that exist below the  *)
(* root of the manager's client; a path is a sequence of entry names.      *)
(***************************************************************************)
EXTENDS Integers, Sequences, FiniteSets, TLC

VARIABLES backend, caller, calls, fs, pr, pb, live, sent, res

vars == <<backend, caller, calls, fs, pr, pb, live, sent, res>>

----------------------------------------------------------------------------
(* Bounds *)

\* largest number of paths the model lets the storage hold
MaxPaths == 8
\* largest length of the entry names handed to __unserialize_assignments
MaxToken == 4
MaxSettings == 4

----------------------------------------------------------------------------
(* Characters and strings *)

\* the characters of the model, in ASCII order
CharOrder ==
  <<"-", "=", "A", "B", "_", "a", "b", "e", "f", "g", "i", "k", "m", "n",
    "o", "p", "q", "r", "s", "t", "v", "x", "y">>

Ord(c) == CHOOSE i \in 1..Len(CharOrder) : CharOrder[i] = c

\* \w of Python's re module
WordChars == {"A", "B", "_", "a", "b", "e", "f", "g", "i", "k", "m", "n",
              "o", "p", "q", "r", "s", "t", "v", "x", "y"}

\* str < str, lexicographic
RECURSIVE StrLess(_, _)
StrLess(a, b) ==
  IF b = <<>> THEN FALSE
  ELSE IF a = <<>> THEN TRUE
  ELSE IF a[1] # b[1] THEN Ord(a[1]) < Ord(b[1])
  ELSE StrLess(Tail(a), Tail(b))

\* sorted(list of str)
RECURSIVE Insert(_, _)
Insert(x, s) ==
  IF s = <<>> THEN <<x>>
  ELSE IF StrLess(x, s[1]) THEN <<x>> \o s
  ELSE <<s[1]>> \o Insert(x, Tail(s))

RECURSIVE Sorted(_)
Sorted(s) == IF s = <<>> THEN <<>> ELSE Insert(s[1], Sorted(Tail(s)))

\* sep.join(list of str)
RECURSIVE Join(_, _)
Join(sep, parts) ==
  IF parts = <<>> THEN <<>>
  ELSE IF Len(parts) = 1 THEN parts[1]
  ELSE parts[1] \o sep \o Join(sep, Tail(parts))

StartsWith(s, p) == Len(p) <= Len(s) /\ SubSeq(s, 1, Len(p)) = p

\* sub in s
Contains(s, sub) ==
  \E i \in 1..(Len(s) + 1) :
    i + Len(sub) - 1 <= Len(s) /\ SubSeq(s, i, i + Len(sub) - 1) = sub

\* s.split(sep), sep not empty: the leftmost separator first
RECURSIVE SplitAcc(_, _, _)
SplitAcc(s, sep, cur) ==
  IF s = <<>> THEN <<cur>>
  ELSE IF StartsWith(s, sep)
       THEN <<cur>> \o SplitAcc(SubSeq(s, Len(sep) + 1, Len(s)), sep, <<>>)
       ELSE SplitAcc(Tail(s), sep, Append(cur, s[1]))

Split(s, sep) == SplitAcc(s, sep, <<>>)

SeqRange(s) == {s[i] : i \in 1..Len(s)}

\* the sequences that list every element of the set S once
Perms(S) ==
  {s \in [1..Cardinality(S) -> S] : \A i, j \in 1..Cardinality(S) : s[i] = s[j] => i = j}

\* sorted(set of str) as a list
RECURSIVE SortedSet(_)
SortedSet(S) ==
  IF S = {} THEN <<>>
  ELSE LET m == CHOOSE x \in S : \A y \in S : y = x \/ StrLess(x, y)
       IN <<m>> \o SortedSet(S \ {m})

----------------------------------------------------------------------------
(* Inputs *)

Local == "local"
Nexus == "nexus"
Backends == {Local, Nexus}

RegNames == {<<"p">>}
\* the registry names of a caller who keeps several registries
ManagerNames == {<<"p">>, <<"q">>}
ParamNames == {<<"v">>}
\* the values of the parameters: a word and a string that \w does not match
Values == {<<"x">>, <<"-">>}
\* with a value that holds '=' and '=='
AnyValues == Values \cup {<<"x", "=", "=", "x", "=", "x">>}
\* the names of the files of a payload
Files == {<<"f">>, <<"g">>}
\* string.ascii_uppercase + string.digits, cut down to two characters
RandChars == {"A", "B"}
\* the length add_package_binary asks __random_string for
RandomLength == 10

\* the parameter lists a caller passes: distinct names in any order
Schemas == UNION {Perms(S) : S \in SUBSET ParamNames}
\* with several names, and a name that holds '=='
AnyParamNames == {<<"a">>, <<"b">>, <<"a", "=", "=", "b">>}
AnySchemas == UNION {Perms(S) : S \in SUBSET AnyParamNames}
\* the dictionaries a caller passes as assignments, with values of V
Assignments(V) == UNION {[S -> V] : S \in SUBSET ParamNames}
\* the local directories a caller uploads: one file each
Sources == {{x} : x \in Files}
\* the local destination of a download: absent, or a directory with a file
NoDir == [exists |-> FALSE, files |-> {}]
Dir(F) == [exists |-> TRUE, files |-> F]
Dests == {NoDir, Dir({<<"g">>})}

OK == "ok"
\* Python's exception classes
KeyError == "KeyError"
FileExistsError == "FileExistsError"
FileNotFoundError == "FileNotFoundError"
ValueError == "ValueError"
IndexError == "IndexError"
ConnectionError == "ConnectionError"

\* Optional[...]
None == [some |-> FALSE, val |-> <<>>]
Some(v) == [some |-> TRUE, val |-> v]

\* the outcome of a call: the exception it raised (or OK), the storage it
\* left and the value it returned
Out(e, f, v) == [err |-> e, fs |-> f, val |-> v]

----------------------------------------------------------------------------
(* FileBasedClientAbstract: a client is a backend and the path of its      *)
(* directory.  The root of the manager's client, <<>>, always exists.      *)

Exists(f, p) == p = <<>> \/ p \in f
Children(f, base) == {p[Len(p)] : p \in {q \in f : Len(q) = Len(base) + 1 /\ SubSeq(q, 1, Len(base)) = base}}
Ancestors(p) == {SubSeq(p, 1, i) : i \in 1..Len(p)}
Subtree(f, p) == {q \in f : Len(q) >= Len(p) /\ SubSeq(q, 1, Len(p)) = p}
\* os.path.join(root, name), url + name + '/'
PathJoin(base, name) == IF name = <<>> THEN base ELSE Append(base, name)

bin == <<"b", "i", "n">>

\* LocalClient.ls: os.listdir; NexusFileClient.ls: GET, 200 expected
ls(b, f, base) ==
  IF Exists(f, base) THEN {Out(OK, f, Children(f, base))}
  ELSE IF b = Local THEN {Out(FileNotFoundError, f, {})}
  ELSE {Out(ValueError, f, {})}

\* LocalClient.mkdir: os.makedirs, which raises when the leaf exists;
\* NexusFileClient.mkdir: POST of name/.pacco with 200 or 201 expected.  The
\* server creates the directory; when the placeholder is there already, it
\* answers the second deployment with a status that the code accepts or
\* with one that it does not (the constructor, which deploys the same file
\* again for every client, accepts 204 as well).
mkdir(b, f, base, name) ==
  LET p == PathJoin(base, name) IN
  IF b = Local
  THEN IF Exists(f, p) THEN {Out(FileExistsError, f, <<>>)}
       ELSE {Out(OK, f \cup Ancestors(p), <<>>)}
  ELSE IF Exists(f, p) THEN {Out(OK, f, <<>>), Out(ValueError, f, <<>>)}
       ELSE {Out(OK, f \cup Ancestors(p), <<>>)}

\* LocalClient.rmdir: shutil.rmtree; NexusFileClient.rmdir: DELETE, 200 or
\* 204 expected
rmdir(b, f, base, name) ==
  LET p == PathJoin(base, name) IN
  IF p \in f THEN {Out(OK, f \ Subtree(f, p), <<>>)}
  ELSE IF b = Local THEN {Out(FileNotFoundError, f, <<>>)}
  ELSE {Out(ValueError, f, <<>>)}

\* LocalClient.dispatch_subdir: a client on root/name, nothing is written;
\* NexusFileClient.dispatch_subdir: the constructor of the new client POSTs
\* url/name/.pacco
dispatch_subdir(b, f, base, name) ==
  LET p == PathJoin(base, name) IN
  IF b = Local THEN {Out(OK, f, p)}
  ELSE {Out(OK, f \cup Ancestors(p), p)}

\* LocalClient.upload_dir: rmtree(bin, ignore_errors) then copytree(src, bin),
\* whose makedirs creates the missing ancestors of bin;
\* NexusFileClient.upload_dir: pass
upload_dir(b, f, base, src) ==
  LET binp == Append(base, bin) IN
  IF b = Local
  THEN {Out(OK, ((f \ Subtree(f, binp)) \cup Ancestors(binp)) \cup {Append(binp, x) : x \in src}, <<>>)}
  ELSE {Out(OK, f, <<>>)}

\* LocalClient.download_dir: copytree(bin, dest) lists bin first and raises
\* when dest exists; NexusFileClient.download_dir: pass.  val is the
\* destination afterwards.
download_dir(b, f, base, dest) ==
  LET binp == Append(base, bin) IN
  IF b = Local
  THEN IF ~Exists(f, binp) THEN {Out(FileNotFoundError, f, dest)}
       ELSE IF dest.exists THEN {Out(FileExistsError, f, dest)}
       ELSE {Out(OK, f, Dir(Children(f, binp)))}
  ELSE {Out(OK, f, dest)}

----------------------------------------------------------------------------
(* PackageRegistryFileBased: the codec *)

params_prefix == <<"_", "_", "p", "a", "r", "a", "m", "s">>
Sep == <<"=", "=">>
Eq == <<"=">>

\* __serialize_params
serialize_params(params) == Join(Sep, <<params_prefix>> \o Sorted(params))

\* __get_remote_params that finds no schema marker
remote_params_none(names) == {None}

\* __get_remote_params on a listing: the entry that contains the prefix,
\* split at '==', without its first part; with several such entries the one
\* the listing yields last, which is any of them.  The set of the results.
remote_params(names) ==
  LET marked == {n \in names : Contains(n, params_prefix)} IN
  IF marked = {} THEN {None}
  ELSE {Some(Tail(Split(n, Sep))) : n \in marked}

\* __serialize_assignments; the dictionary is a function on its keys
serialize_assignments(a) ==
  LET ks == SortedSet(DOMAIN a) IN
  Join(Sep, [i \in 1..Len(ks) |-> ks[i] \o Eq \o a[ks[i]]])

\* the dictionary with the pairs of items, a list of (key, value) pairs with
\* distinct keys
AsDict(items) ==
  [k \in {items[i][1] : i \in 1..Len(items)} |->
     (items[CHOOSE i \in 1..Len(items) : items[i][1] = k])[2]]

\* sorted(items, key=lambda x: x[0])
RECURSIVE InsertByKey(_, _)
InsertByKey(x, s) ==
  IF s = <<>> THEN <<x>>
  ELSE IF StrLess(x[1], s[1][1]) THEN <<x>> \o s
  ELSE <<s[1]>> \o InsertByKey(x, Tail(s))

RECURSIVE SortedByKey(_)
SortedByKey(items) ==
  IF items = <<>> THEN <<>> ELSE InsertByKey(items[1], SortedByKey(Tail(items)))

\* '=='.join of the pairs in the order they come
serialize_items_unsorted(items) ==
  Join(Sep, [i \in 1..Len(items) |-> items[i][1] \o Eq \o items[i][2]])

\* __serialize_assignments on the items of the dictionary in the order in
\* which the dictionary yields them
serialize_items(items) ==
  LET pairs == SortedByKey(items) IN
  Join(Sep, [i \in 1..Len(pairs) |-> pairs[i][1] \o Eq \o pairs[i][2]])

\* PackageRegistry.__generate_dir_name_from_settings_value of classes.py, on
\* the items likewise
generate_dir_name_from_settings_value(items) ==
  LET pairs == SortedByKey(items) IN
  Join(Sep, [i \in 1..Len(pairs) |-> pairs[i][1] \o Eq \o pairs[i][2]])

\* re.match(r"((\w+=\w+)==)*(\w+=\w+)", s): a match at the start of s, not
\* of the whole of s; every match starts with \w+=\w+ and that alone matches
ReMatch(s) ==
  \E i \in 1..Len(s) :
    /\ \A j \in 1..i : s[j] \in WordChars
    /\ i + 2 <= Len(s)
    /\ s[i + 1] = "="
    /\ s[i + 2] \in WordChars

\* __unserialize_assignments: err is ValueError when the match fails and
\* IndexError when a part holds no '='; in the dictionary a later part
\* replaces an earlier one with the same key
unserialize_assignments(dir_name) ==
  LET parts == Split(dir_name, Sep)
      kv(i) == Split(parts[i], Eq)
      last(k) == CHOOSE i \in 1..Len(parts) :
                   /\ kv(i)[1] = k
                   /\ \A j \in (i + 1)..Len(parts) : kv(j)[1] # k
  IN IF ~ReMatch(dir_name) THEN [err |-> ValueError, val |-> <<>>]
     ELSE IF \E i \in 1..Len(parts) : Len(kv(i)) < 2 THEN [err |-> IndexError, val |-> <<>>]
     ELSE [err |-> OK,
           val |-> [k \in {kv(i)[1] : i \in 1..Len(parts)} |-> kv(last(k))[2]]]

\* [\w\-.] of the pattern of __parse_settings_args
SettingsClass == WordChars \cup {"-", "."}

\* re.match(r"([\w\-.]+=[\w\-.]+,)*([\w\-.]+=[\w\-.]+),?", s): a match at
\* the start of s, not of the whole of s; every match starts with
\* [\w\-.]+=[\w\-.]+ and that alone matches
SettingsMatch(s) ==
  \E i \in 1..Len(s) :
    /\ \A j \in 1..i : s[j] \in SettingsClass
    /\ i + 2 <= Len(s)
    /\ s[i + 1] = "="
    /\ s[i + 2] \in SettingsClass

\* Binary.__parse_settings_args: err is ValueError when the match fails and
\* IndexError when a token holds no '='; in the dictionary a later token
\* replaces an earlier one with the same key
parse_settings_args(settings_args) ==
  LET tokens == Split(settings_args, <<",">>)
      kv(i) == Split(tokens[i], Eq)
      last(k) == CHOOSE i \in 1..Len(tokens) :
                   /\ kv(i)[1] = k
                   /\ \A j \in (i + 1)..Len(tokens) : kv(j)[1] # k
  IN IF ~SettingsMatch(settings_args) THEN [err |-> ValueError, val |-> <<>>]
     ELSE IF \E i \in 1..Len(tokens) : Len(kv(i)) < 2 THEN [err |-> IndexError, val |-> <<>>]
     ELSE [err |-> OK,
           val |-> [k \in {kv(i)[1] : i \in 1..Len(tokens)} |-> kv(last(k))[2]]]

\* __random_string(length): random.choices draws every character on its own;
\* the model follows the draws that repeat one character, which leaves one
\* string for each character of RandChars
random_string(length) == {[i \in 1..length |-> c] : c \in RandChars}

----------------------------------------------------------------------------
(* PackageRegistryFileBased: the registry on the client at path base *)

\* __init__ that declares an empty parameter list when it finds no schema
\* marker and the caller gave none
RegistryInit_default_params(b, f, base, params) ==
  UNION {
    IF l.err # OK THEN {Out(l.err, f, <<>>)}
    ELSE UNION {
      IF rp.some THEN {Out(OK, f, rp.val)}
      ELSE LET given == IF params.some THEN params.val ELSE <<>> IN
           {Out(m.err, m.fs, given) : m \in mkdir(b, f, base, serialize_params(given))}
      : rp \in remote_params(l.val)}
    : l \in ls(b, f, base)}

\* __init__: val is self.params
RegistryInit(b, f, base, params) ==
  UNION {
    IF l.err # OK THEN {Out(l.err, f, <<>>)}
    ELSE UNION {
      IF ~params.some /\ ~rp.some THEN {Out(FileNotFoundError, f, <<>>)}
      ELSE IF rp.some THEN {Out(OK, f, rp.val)}
      ELSE {Out(m.err, m.fs, params.val) : m \in mkdir(b, f, base, serialize_params(params.val))}
      : rp \in remote_params(l.val)}
    : l \in ls(b, f, base)}

\* the entries of a wrapper entry but 'bin'
Markers(f, base, w) == Children(f, Append(base, w)) \ {bin}

\* __get_serialized_assignments_to_wrapper_mapping: val is the dictionary
\* from serialized assignments to wrapper names.  A listing comes in any
\* order: sub_dirs[0] is any marker of the wrapper, and of two wrappers with
\* the same marker either is the one that stays in the dictionary.
wrapper_mapping(b, f, base, params) ==
  UNION {
    IF l.err # OK THEN {Out(l.err, f, <<>>)}
    ELSE IF serialize_params(params) \notin l.val THEN {Out(ValueError, f, <<>>)}
    ELSE LET ws == l.val \ {serialize_params(params)} IN
         IF \E w \in ws : Markers(f, base, w) = {} THEN {Out(IndexError, f, <<>>)}
         ELSE LET all == UNION {Markers(f, base, w) : w \in ws}
                  firsts == {c \in [ws -> all] : \A w \in ws : c[w] \in Markers(f, base, w)}
              IN UNION {
                   {Out(OK, f, m) : m \in {m \in [{c[w] : w \in ws} -> ws] : \A t \in DOMAIN m : c[m[t]] = t}}
                   : c \in firsts}
    : l \in ls(b, f, base)}

\* list_package_binaries: val is the set of the dictionaries of the list,
\* with the length of the list
list_package_binaries(b, f, base, params) ==
  UNION {
    IF m.err # OK THEN {Out(m.err, f, [listed |-> {}, count |-> 0])}
    ELSE LET bad == {t \in DOMAIN m.val : unserialize_assignments(t).err # OK} IN
         IF bad # {} THEN {Out(unserialize_assignments(t).err, f, [listed |-> {}, count |-> 0]) : t \in bad}
         ELSE {Out(OK, f, [listed |-> {unserialize_assignments(t).val : t \in DOMAIN m.val},
                           count |-> Cardinality(DOMAIN m.val)])}
    : m \in wrapper_mapping(b, f, base, params)}

\* lines 183-184 of add_package_binary: the wrapper entry, then the marker
\* in it; val is the name of the wrapper entry
add_entry(b, f, base, name, ser) ==
  UNION {
    IF k.err # OK THEN {Out(k.err, k.fs, name)}
    ELSE UNION {
      IF d.err # OK THEN {Out(d.err, d.fs, name)}
      ELSE {Out(n.err, n.fs, name) : n \in mkdir(b, d.fs, d.val, ser)}
      : d \in dispatch_subdir(b, k.fs, base, name)}
    : k \in mkdir(b, f, base, name)}

\* lines 174-185 of add_package_binary: the presence test, the random name
\* with its one second draw, the two entries
add_new_binary(b, f, base, params, a) ==
  LET ser == serialize_assignments(a) IN
  UNION {
    IF m.err # OK THEN {Out(m.err, f, <<>>)}
    ELSE IF ser \in DOMAIN m.val THEN {Out(FileExistsError, f, <<>>)}
    ELSE UNION {
      UNION {add_entry(b, f, base, name, ser)
             : name \in IF r1 \in {m.val[t] : t \in DOMAIN m.val}
                        THEN random_string(RandomLength) ELSE {r1}}
      : r1 \in random_string(RandomLength)}
    : m \in wrapper_mapping(b, f, base, params)}

\* lines 170-181 of add_package_binary, up to the first write: the test of
\* the keys, the presence test, the random name with its one second draw;
\* val is the name drawn
add_package_binary_test(b, f, base, params, a) ==
  IF DOMAIN a # SeqRange(params) THEN {Out(KeyError, f, <<>>)}
  ELSE UNION {
    IF m.err # OK THEN {Out(m.err, f, <<>>)}
    ELSE IF serialize_assignments(a) \in DOMAIN m.val THEN {Out(FileExistsError, f, <<>>)}
    ELSE UNION {
      {Out(OK, f, name)
       : name \in IF r1 \in {m.val[t] : t \in DOMAIN m.val}
                  THEN random_string(RandomLength) ELSE {r1}}
      : r1 \in random_string(RandomLength)}
    : m \in wrapper_mapping(b, f, base, params)}

\* line 184 with a second presence test before the marker is written
add_marker_tested(b, f, base, name, ser) ==
  IF \E w \in Children(f, base) : ser \in Markers(f, base, w)
  THEN {Out(FileExistsError, f, name)}
  ELSE {Out(OK, f \cup {Append(Append(base, name), ser)}, name)}

\* line 184 of add_package_binary: the marker in the wrapper entry
add_marker(b, f, base, name, ser) ==
  UNION {
    IF d.err # OK THEN {Out(d.err, d.fs, name)}
    ELSE {Out(n.err, n.fs, name) : n \in mkdir(b, d.fs, d.val, ser)}
    : d \in dispatch_subdir(b, f, base, name)}

\* add_package_binary with a test that lets a subset of the keys pass
add_package_binary_subset_keys(b, f, base, params, a) ==
  IF ~(DOMAIN a \subseteq SeqRange(params)) THEN {Out(KeyError, f, <<>>)}
  ELSE add_new_binary(b, f, base, params, a)

\* add_package_binary
add_package_binary(b, f, base, params, a) ==
  IF DOMAIN a # SeqRange(params) THEN {Out(KeyError, f, <<>>)}
  ELSE add_new_binary(b, f, base, params, a)

\* remove_package_binary: the dictionary is indexed without a test
remove_package_binary(b, f, base, params, a) ==
  LET ser == serialize_assignments(a) IN
  UNION {
    IF m.err # OK THEN {Out(m.err, f, <<>>)}
    ELSE IF ser \notin DOMAIN m.val THEN {Out(KeyError, f, <<>>)}
    ELSE rmdir(b, f, base, m.val[ser])
    : m \in wrapper_mapping(b, f, base, params)}

\* get_package_binary: val is the path of the client of the binary
get_package_binary(b, f, base, params, a) ==
  LET ser == serialize_assignments(a) IN
  IF DOMAIN a # SeqRange(params) THEN {Out(KeyError, f, <<>>)}
  ELSE UNION {
    IF m.err # OK THEN {Out(m.err, f, <<>>)}
    ELSE IF ser \notin DOMAIN m.val THEN {Out(FileNotFoundError, f, <<>>)}
    ELSE dispatch_subdir(b, f, base, m.val[ser])
    : m \in wrapper_mapping(b, f, base, params)}

\* the marker old of the wrapper entry w replaced by the marker new
rewrite_marker(b, f, base, w, old, new) ==
  UNION {
    IF d.err # OK THEN {Out(d.err, d.fs, <<>>)}
    ELSE UNION {
      IF r.err # OK THEN {Out(r.err, r.fs, <<>>)}
      ELSE mkdir(b, r.fs, d.val, new)
      : r \in rmdir(b, d.fs, d.val, old)}
    : d \in dispatch_subdir(b, f, base, w)}

\* reassign_binary: the marker of the wrapper entry of old becomes the
\* marker of new; the payload stays where it is
reassign_binary(b, f, base, params, old, new) ==
  IF DOMAIN old # SeqRange(params) \/ DOMAIN new # SeqRange(params)
  THEN {Out(KeyError, f, <<>>)}
  ELSE UNION {
    IF m.err # OK THEN {Out(m.err, f, <<>>)}
    ELSE IF serialize_assignments(old) \notin DOMAIN m.val THEN {Out(FileNotFoundError, f, <<>>)}
    ELSE IF serialize_assignments(new) \in DOMAIN m.val THEN {Out(FileExistsError, f, <<>>)}
    ELSE rewrite_marker(b, f, base, m.val[serialize_assignments(old)],
                        serialize_assignments(old), serialize_assignments(new))
    : m \in wrapper_mapping(b, f, base, params)}

\* the assignment a with the parameter p set to the value v, and without it
WithParam(a, p, v) == [k \in DOMAIN a \cup {p} |-> IF k = p THEN v ELSE a[k]]
WithoutParam(a, p) == [k \in DOMAIN a \ {p} |-> a[k]]
\* the assignment a after the change c of the parameters
Changed(a, c) == IF c.add THEN WithParam(a, c.p, c.v) ELSE WithoutParam(a, c.p)

\* the markers of the wrapper entries of the mapping m rewritten one after
\* the other, in any order, each marker t to new[t]; the first failure ends
\* the rewriting
RECURSIVE rewrite_markers(_, _, _, _, _, _)
rewrite_markers(b, f, base, m, todo, new) ==
  IF todo = {} THEN {Out(OK, f, <<>>)}
  ELSE UNION {
    UNION {
      IF r.err # OK THEN {r}
      ELSE rewrite_markers(b, r.fs, base, m, todo \ {t}, new)
      : r \in rewrite_marker(b, f, base, m[t], t, new[t])}
    : t \in todo}

\* the schema marker of the list params replaced by the one of the list new;
\* val is new
rewrite_schema(b, f, base, params, new) ==
  UNION {
    IF r.err # OK THEN {Out(r.err, r.fs, params)}
    ELSE {Out(k.err, k.fs, IF k.err = OK THEN new ELSE params)
          : k \in mkdir(b, r.fs, base, serialize_params(new))}
    : r \in rmdir(b, f, base, serialize_params(params))}

\* the labels of all binaries decoded, changed by c and rewritten, then the
\* schema marker; val is self.params afterwards
evolve(b, f, base, params, new, c) ==
  UNION {
    IF m.err # OK THEN {Out(m.err, f, params)}
    ELSE LET bad == {t \in DOMAIN m.val : unserialize_assignments(t).err # OK} IN
         IF bad # {} THEN {Out(unserialize_assignments(t).err, f, params) : t \in bad}
         ELSE UNION {
           IF w.err # OK THEN {Out(w.err, w.fs, params)}
           ELSE rewrite_schema(b, w.fs, base, params, new)
           : w \in rewrite_markers(b, f, base, m.val, DOMAIN m.val,
                                   [t \in DOMAIN m.val |->
                                      serialize_assignments(Changed(unserialize_assignments(t).val, c))])}
    : m \in wrapper_mapping(b, f, base, params)}

\* param_add
param_add(b, f, base, params, p, v) ==
  evolve(b, f, base, params, SortedSet(SeqRange(params) \cup {p}),
         [add |-> TRUE, p |-> p, v |-> v])

\* param_remove
param_remove(b, f, base, params, p) ==
  evolve(b, f, base, params, SortedSet(SeqRange(params) \ {p}),
         [add |-> FALSE, p |-> p, v |-> <<>>])

----------------------------------------------------------------------------
(* PackageBinaryFileBased: the binary on the client at path base *)

\* upload_content
upload_content(b, f, base, src) == upload_dir(b, f, base, src)

\* download_content
download_content(b, f, base, dest) == download_dir(b, f, base, dest)

----------------------------------------------------------------------------
(* PackageManagerFileBased: the manager on the client at the root *)

\* list_package_registries that returns the listing in the order it came
list_package_registries_unsorted(b, f) ==
  UNION {IF l.err = OK THEN {Out(OK, f, names) : names \in Perms(l.val)}
         ELSE {Out(l.err, f, <<>>)}
         : l \in ls(b, f, <<>>)}

\* list_package_registries
list_package_registries(b, f) ==
  {Out(l.err, f, IF l.err = OK THEN SortedSet(l.val) ELSE <<>>) : l \in ls(b, f, <<>>)}

\* remove_package_registry that answers without removing anything
remove_package_registry_keeps(b, f, name) ==
  {Out(o.err, f, <<>>) : o \in rmdir(b, f, <<>>, name)}

\* remove_package_registry
remove_package_registry(b, f, name) == rmdir(b, f, <<>>, name)

\* lines 53-54 of add_package_registry: the directory, then the registry in
\* it, which writes the schema marker
add_registry_entry(b, f, name, settings_key) ==
  UNION {
    IF k.err # OK THEN {Out(k.err, k.fs, <<>>)}
    ELSE UNION {
      IF d.err # OK THEN {Out(d.err, d.fs, <<>>)}
      ELSE RegistryInit(b, d.fs, d.val, Some(settings_key))
      : d \in dispatch_subdir(b, k.fs, <<>>, name)}
    : k \in mkdir(b, f, <<>>, name)}

\* add_package_registry without the test of the name
add_package_registry_no_test(b, f, name, settings_key) ==
  UNION {
    IF l.err # OK THEN {Out(l.err, f, <<>>)}
    ELSE {Out(o.err, o.fs, <<>>) : o \in add_registry_entry(b, f, name, settings_key)}
    : l \in ls(b, f, <<>>)}

\* add_package_registry
add_package_registry(b, f, name, settings_key) ==
  UNION {
    IF l.err # OK THEN {Out(l.err, f, <<>>)}
    ELSE IF name \in l.val THEN {Out(FileExistsError, f, <<>>)}
    ELSE {Out(o.err, o.fs, <<>>) : o \in add_registry_entry(b, f, name, settings_key)}
    : l \in ls(b, f, <<>>)}

\* get_package_registry without the test of line 59
get_package_registry_no_test(b, f, name) ==
  UNION {
    IF d.err # OK THEN {Out(d.err, d.fs, <<>>)}
    ELSE RegistryInit(b, d.fs, d.val, None)
    : d \in dispatch_subdir(b, f, <<>>, name)}

\* get_package_registry: val is self.params of the registry it returns
get_package_registry(b, f, name) ==
  UNION {
    IF l.err # OK THEN {Out(l.err, f, <<>>)}
    ELSE IF name \notin l.val THEN {Out(FileNotFoundError, f, <<>>)}
    ELSE UNION {
      IF d.err # OK THEN {Out(d.err, d.fs, <<>>)}
      ELSE RegistryInit(b, d.fs, d.val, None)
      : d \in dispatch_subdir(b, f, <<>>, name)}
    : l \in ls(b, f, <<>>)}

----------------------------------------------------------------------------
(* classes.py, the direct scheme: the entry of a binary is named by the    *)
(* serialized assignment, and the schema marker is '__settings_key==...'.  *)

settings_key_prefix ==
  <<"_", "_", "s", "e", "t", "t", "i", "n", "g", "s", "_", "k", "e", "y">>

\* PackageRegistry.__generate_settings_key_dir_name
generate_settings_key_dir_name(settings_key) ==
  Join(Sep, <<settings_key_prefix>> \o Sorted(settings_key))

\* PackageRegistry.__generate_dir_name_from_settings_value on a dictionary
dir_name_from_settings_value(settings_value) ==
  LET keys == SortedSet(DOMAIN settings_value) IN
  Join(Sep, [i \in 1..Len(keys) |-> keys[i] \o Eq \o settings_value[keys[i]]])

\* PackageRegistry.__get_settings_key: every name that holds
\* '__settings_key' overwrites the result, so the last one of the listing,
\* which comes in any order, gives it
get_settings_key(dirs) ==
  LET found == {n \in dirs : Contains(n, settings_key_prefix)} IN
  IF found = {} THEN {None}
  ELSE {Some(Tail(Split(n, Sep))) : n \in found}

\* PackageRegistry.__init__ of classes.py: val is self.settings_key
PackageRegistry_init(b, f, base, settings_key) ==
  UNION {
    IF l.err # OK THEN {Out(l.err, f, <<>>)}
    ELSE UNION {
      IF ~settings_key.some /\ ~from_remote.some THEN {Out(FileNotFoundError, f, <<>>)}
      ELSE IF from_remote.some THEN {Out(OK, f, from_remote.val)}
      ELSE {Out(m.err, m.fs, settings_key.val)
            : m \in mkdir(b, f, base, generate_settings_key_dir_name(settings_key.val))}
      : from_remote \in get_settings_key(l.val)}
    : l \in ls(b, f, base)}

\* PackageRegistry.list_package_binaries of classes.py: val is the sorted
\* list of the names
PackageRegistry_list_package_binaries(b, f, base, settings_key) ==
  UNION {
    IF l.err # OK THEN {Out(l.err, f, <<>>)}
    ELSE IF generate_settings_key_dir_name(settings_key) \notin l.val
         THEN {Out(ValueError, f, <<>>)}
    ELSE {Out(OK, f, SortedSet(l.val \ {generate_settings_key_dir_name(settings_key)}))}
    : l \in ls(b, f, base)}

\* PackageRegistry.add_package_binary of classes.py: val is the name of
\* the entry
PackageRegistry_add_package_binary(b, f, base, settings_key, settings_value) ==
  LET dir_name == dir_name_from_settings_value(settings_value) IN
  IF DOMAIN settings_value # SeqRange(settings_key) THEN {Out(KeyError, f, <<>>)}
  ELSE UNION {
    IF l.err # OK THEN {Out(l.err, f, <<>>)}
    ELSE IF dir_name \in l.val THEN {Out(FileExistsError, f, <<>>)}
    ELSE UNION {
      IF k.err # OK THEN {Out(k.err, k.fs, dir_name)}
      ELSE {Out(d.err, d.fs, dir_name) : d \in dispatch_subdir(b, k.fs, base, dir_name)}
      : k \in mkdir(b, f, base, dir_name)}
    : l \in ls(b, f, base)}

----------------------------------------------------------------------------
(* The command line: Binary.upload of command_manager.py, from the parsed  *)
(* assignment on; the remote is the manager on the client of the root.     *)

\* the finally clause of lines 423-425 while the exception pending is raised
\* (OK: none): get_package_binary and upload_content; an exception of the
\* clause replaces the pending one, which is raised again when the clause
\* ends without one.  val is the path of the client of the binary.
upload_finally(b, f, base, params, a, src, raised) ==
  UNION {
    IF g.err # OK THEN {Out(g.err, g.fs, <<>>)}
    ELSE {Out(IF u.err # OK THEN u.err ELSE raised, u.fs, g.val)
          : u \in upload_content(b, g.fs, g.val, src)}
    : g \in get_package_binary(b, f, base, params, a)}

\* Binary.upload, lines 416-425: the registry, then the try statement of
\* lines 417-425 (get_package_binary, and add_package_binary when it raises
\* FileNotFoundError)
binary_upload(b, f, name, a, src) ==
  UNION {
    IF r.err # OK THEN {Out(r.err, r.fs, <<>>)}
    ELSE UNION {
      IF g.err = FileNotFoundError
      THEN UNION {upload_finally(b, n.fs, <<name>>, r.val, a, src, n.err)
                  : n \in add_package_binary(b, g.fs, <<name>>, r.val, a)}
      ELSE upload_finally(b, g.fs, <<name>>, r.val, a, src, g.err)
      : g \in get_package_binary(b, r.fs, <<name>>, r.val, a)}
    : r \in get_package_registry(b, f, name)}

----------------------------------------------------------------------------
(* The state machine: one caller, who holds the manager, at most one       *)
(* registry object pr and at most one binary object pb, and calls their    *)
(* methods one after the other.                                            *)
(*   backend  LocalClient or NexusFileClient                               *)
(*   caller   the parameter lists and the values of parameters that the    *)
(*            caller passes                                                *)
(*   calls    the calls in flight of the callers that run                  *)
(*            add_package_binary at once, each on a registry object of     *)
(*            its own: the line the call has reached, its argument, the    *)
(*            entry name it drew, the exception it raised, and whether     *)
(*            another call with the same argument was between its test     *)
(*            and its first write when this call made its test             *)
(*   fs       the paths that exist in the storage                          *)
(*   pr       the registry object: its name and self.params                *)
(*   pb       the binary object: the path of its client                    *)
(*   live     history: per registry name the caller uses, the assignments  *)
(*            added with success and not removed since, whether every      *)
(*            add_package_binary and remove_package_binary call on the     *)
(*            registry succeeded, whether the last successful call of      *)
(*            add_package_registry / remove_package_registry on the name   *)
(*            added or removed it, and the parameter list it was added     *)
(*            with                                                         *)
(*   sent     history: the pairs of a path and the directory last uploaded  *)
(*            with success through a binary object on that path, until the *)
(*            path is removed                                              *)
(*   res      the last call: method, raised exception, arguments (name,    *)
(*            sk and whether the caller gave it, asg, src, dest, items,    *)
(*            token; the codec returns asg or token) and                   *)
(*            returned value (params, names, listed and count, entry,      *)
(*            path, got)                                                   *)
(***************************************************************************)

\* the dictionaries handed to the codec: lists of (key, value) pairs with
\* distinct keys, in any order
CodecKeys == {<<"a">>, <<"b">>}
CodecValues == {<<"x">>, <<"-">>, <<"x", "=", "x">>}
Dicts ==
  UNION {UNION {{[i \in 1..Len(ks) |-> <<ks[i], vs[i]>>] : vs \in [1..Len(ks) -> CodecValues]}
                : ks \in Perms(S)}
         : S \in SUBSET CodecKeys}

\* the entry names handed to the decoder: the short strings over a word
\* character, '=' and '-', a schema marker, the prefix alone and 'bin'
TokenChars == {"v", "=", "-"}
Tokens ==
  UNION {[1..n -> TokenChars] : n \in 0..MaxToken}
    \cup {serialize_params(<<<<"v">>>>), params_prefix, bin}

\* the settings strings handed to the command line: the short strings over
\* two word characters, '=' and ','
SettingsStrings == UNION {[1..n -> {"v", "x", "=", ","}] : n \in 0..MaxSettings}

Caller(S, V) == [schemas |-> S, values |-> V]
NoRegistry == [held |-> FALSE, name |-> <<>>, params |-> <<>>]
NoBinary == [held |-> FALSE, path |-> <<>>]
Fresh == [added |-> {}, clean |-> TRUE, reg |-> "none", sk |-> <<>>]
Added(sk) == [Fresh EXCEPT !.reg = "added", !.sk = sk]
Removed == [Fresh EXCEPT !.reg = "removed"]

\* the record of a call; a field that the call does not use keeps its value
\* in NoCall
NoCall ==
  [op |-> "init", err |-> OK,
   name |-> <<>>, sk |-> <<>>, declared |-> FALSE, asg |-> <<>>, to |-> <<>>,
   param |-> <<>>, value |-> <<>>, src |-> {},
   dest |-> NoDir,
   items |-> <<>>, token |-> <<>>,
   params |-> <<>>, names |-> <<>>, listed |-> {}, count |-> 0,
   entry |-> <<>>, path |-> <<>>, got |-> NoDir]

Call(op, e) == [NoCall EXCEPT !.op = op, !.err = e]

\* the callers that run add_package_binary at once
Callers == {1, 2}
Idle == [pc |-> "idle", asg |-> <<>>, name |-> <<>>, err |-> OK, overlap |-> FALSE]
NoCalls == [c \in Callers |-> Idle]

\* the uploads whose path is still in the storage f
Kept(s, f) == {e \in s : e[1] \in f}

\* the model follows the calls that leave at most MaxPaths paths
Within(o) == Cardinality(o.fs) <= MaxPaths

Init ==
  /\ backend \in Backends
  /\ caller = Caller(Schemas, Values)
  /\ fs = {}
  /\ pr = NoRegistry
  /\ pb = NoBinary
  /\ live = [n \in RegNames |-> Fresh]
  /\ sent = {}
  /\ res = NoCall
  /\ calls = NoCalls

AddRegistry ==
  \E name \in DOMAIN live, sk \in caller.schemas :
    \E o \in add_package_registry(backend, fs, name, sk) :
      /\ Within(o)
      /\ fs' = o.fs
      /\ live' = IF o.err = OK THEN [live EXCEPT ![name] = Added(sk)] ELSE live
      /\ res' = [Call("add_package_registry", o.err) EXCEPT
                  !.name = name, !.sk = sk, !.declared = TRUE]
      /\ UNCHANGED <<backend, caller, calls, pr, pb, sent>>

RemoveRegistry ==
  \E name \in DOMAIN live :
    \E o \in remove_package_registry(backend, fs, name) :
      /\ Within(o)
      /\ fs' = o.fs
      /\ live' = IF o.err = OK THEN [live EXCEPT ![name] = Removed] ELSE live
      /\ sent' = Kept(sent, o.fs)
      /\ res' = [Call("remove_package_registry", o.err) EXCEPT !.name = name]
      /\ UNCHANGED <<backend, caller, calls, pr, pb>>

GetRegistry ==
  \E name \in DOMAIN live :
    \E o \in get_package_registry(backend, fs, name) :
      /\ Within(o)
      /\ fs' = o.fs
      /\ pr' = IF o.err = OK THEN [held |-> TRUE, name |-> name, params |-> o.val] ELSE pr
      /\ res' = [Call("get_package_registry", o.err) EXCEPT !.name = name, !.params = o.val]
      /\ UNCHANGED <<backend, caller, calls, pb, live, sent>>

\* PackageRegistryFileBased(name, client.dispatch_subdir(name), params), the
\* expression of lines 54 and 61, evaluated by the caller with a parameter
\* list or without one
NewRegistry ==
  \E name \in DOMAIN live, params \in {None} \cup {Some(sk) : sk \in caller.schemas} :
    \E d \in dispatch_subdir(backend, fs, <<>>, name) :
      \E o \in RegistryInit(backend, d.fs, d.val, params) :
        /\ Within(o)
        /\ fs' = o.fs
        /\ pr' = IF o.err = OK THEN [held |-> TRUE, name |-> name, params |-> o.val] ELSE pr
        /\ res' = [Call("__init__", o.err) EXCEPT
                    !.name = name, !.sk = params.val, !.declared = params.some,
                    !.params = o.val]
        /\ UNCHANGED <<backend, caller, calls, pb, live, sent>>

ListRegistries ==
  \E o \in list_package_registries(backend, fs) :
    /\ Within(o)
    /\ fs' = o.fs
    /\ res' = [Call("list_package_registries", o.err) EXCEPT !.names = o.val]
    /\ UNCHANGED <<backend, caller, calls, pr, pb, live, sent>>

ListBinaries ==
  /\ pr.held
  /\ \E o \in list_package_binaries(backend, fs, <<pr.name>>, pr.params) :
       /\ Within(o)
       /\ fs' = o.fs
       /\ res' = [Call("list_package_binaries", o.err) EXCEPT
                   !.listed = o.val.listed, !.count = o.val.count]
  /\ UNCHANGED <<backend, caller, calls, pr, pb, live, sent>>

AddBinary ==
  /\ pr.held
  /\ \E a \in Assignments(caller.values) :
       \E o \in add_package_binary(backend, fs, <<pr.name>>, pr.params, a) :
         /\ Within(o)
         /\ fs' = o.fs
         /\ live' = [live EXCEPT ![pr.name] =
                       IF o.err = OK THEN [@ EXCEPT !.added = @ \cup {a}]
                       ELSE [@ EXCEPT !.clean = FALSE]]
         /\ res' = [Call("add_package_binary", o.err) EXCEPT !.asg = a, !.entry = o.val]
  /\ UNCHANGED <<backend, caller, calls, pr, pb, sent>>

RemoveBinary ==
  /\ pr.held
  /\ \E a \in Assignments(caller.values) :
       \E o \in remove_package_binary(backend, fs, <<pr.name>>, pr.params, a) :
         /\ Within(o)
         /\ fs' = o.fs
         /\ live' = [live EXCEPT ![pr.name] =
                       IF o.err = OK THEN [@ EXCEPT !.added = @ \ {a}]
                       ELSE [@ EXCEPT !.clean = FALSE]]
         /\ sent' = Kept(sent, o.fs)
         /\ res' = [Call("remove_package_binary", o.err) EXCEPT !.asg = a]
  /\ UNCHANGED <<backend, caller, calls, pr, pb>>

GetBinary ==
  /\ pr.held
  /\ \E a \in Assignments(caller.values) :
       \E o \in get_package_binary(backend, fs, <<pr.name>>, pr.params, a) :
         /\ Within(o)
         /\ fs' = o.fs
         /\ pb' = IF o.err = OK THEN [held |-> TRUE, path |-> o.val] ELSE pb
         /\ res' = [Call("get_package_binary", o.err) EXCEPT !.asg = a, !.path = o.val]
  /\ UNCHANGED <<backend, caller, calls, pr, live, sent>>

Upload ==
  /\ pb.held
  /\ \E src \in Sources :
       \E o \in upload_content(backend, fs, pb.path, src) :
         /\ Within(o)
         /\ fs' = o.fs
         /\ sent' = IF o.err = OK
                    THEN {e \in sent : e[1] # pb.path} \cup {<<pb.path, src>>}
                    ELSE sent
         /\ res' = [Call("upload_content", o.err) EXCEPT !.src = src]
  /\ UNCHANGED <<backend, caller, calls, pr, pb, live>>

Download ==
  /\ pb.held
  /\ \E dest \in Dests :
       \E o \in download_content(backend, fs, pb.path, dest) :
         /\ Within(o)
         /\ fs' = o.fs
         /\ res' = [Call("download_content", o.err) EXCEPT !.dest = dest, !.got = o.val]
  /\ UNCHANGED <<backend, caller, calls, pr, pb, live, sent>>

\* del of the binary object: the classes define no finalizer
DropBinary ==
  /\ pb.held
  /\ pb' = NoBinary
  /\ res' = Call("del", OK)
  /\ UNCHANGED <<backend, caller, calls, fs, pr, live, sent>>

Next ==
  \/ AddRegistry
  \/ RemoveRegistry
  \/ GetRegistry
  \/ ListRegistries
  \/ ListBinaries
  \/ AddBinary
  \/ RemoveBinary
  \/ GetBinary
  \/ Upload
  \/ Download
  \/ DropBinary

Spec == Init /\ [][Next]_vars

(* One PackageRegistryFileBased: the state after add_package_registry and   *)
(* get_package_registry on an empty storage, and the methods of the        *)
(* registry object from there on.                                          *)

InitRegistry ==
  /\ backend \in Backends
  /\ caller = Caller(Schemas, AnyValues)
  /\ \E name \in RegNames, sk \in Schemas :
       \E a \in add_package_registry(backend, {}, name, sk) :
         /\ a.err = OK
         /\ \E g \in get_package_registry(backend, a.fs, name) :
              /\ g.err = OK
              /\ fs = g.fs
              /\ pr = [held |-> TRUE, name |-> name, params |-> g.val]
              /\ live = [n \in RegNames |-> IF n = name THEN Added(sk) ELSE Fresh]
  /\ pb = NoBinary
  /\ sent = {}
  /\ res = NoCall
  /\ calls = NoCalls

NextRegistry ==
  \/ ListBinaries
  \/ AddBinary
  \/ RemoveBinary
  \/ GetBinary

SpecRegistry == InitRegistry /\ [][NextRegistry]_vars

(* One PackageManagerFileBased with several registries: the methods of the  *)
(* manager, and add_package_binary to fill the registries.                 *)

InitManager ==
  /\ backend \in Backends
  /\ caller = Caller(Schemas, Values)
  /\ fs = {}
  /\ pr = NoRegistry
  /\ pb = NoBinary
  /\ live = [n \in ManagerNames |-> Fresh]
  /\ sent = {}
  /\ res = NoCall
  /\ calls = NoCalls

NextManager ==
  \/ AddRegistry
  \/ RemoveRegistry
  \/ GetRegistry
  \/ ListRegistries
  \/ AddBinary

SpecManager == InitManager /\ [][NextManager]_vars

(* The parameter lists of the registries: add_package_registry with lists   *)
(* of several names in any order, get_package_registry to read them back.  *)

InitParams ==
  /\ backend \in Backends
  /\ caller = Caller(AnySchemas, Values)
  /\ fs = {}
  /\ pr = NoRegistry
  /\ pb = NoBinary
  /\ live = [n \in RegNames |-> Fresh]
  /\ sent = {}
  /\ res = NoCall
  /\ calls = NoCalls

NextParams ==
  \/ AddRegistry
  \/ RemoveRegistry
  \/ GetRegistry

SpecParams == InitParams /\ [][NextParams]_vars

(* The codec of the assignments: the static methods applied to            *)
(* dictionaries and to entry names.                                        *)

SerializeAssignments ==
  /\ \E items \in Dicts :
       res' = [Call("__serialize_assignments", OK) EXCEPT
                 !.items = items, !.asg = AsDict(items), !.token = serialize_items(items)]
  /\ UNCHANGED <<backend, caller, calls, fs, pr, pb, live, sent>>

GenerateDirName ==
  /\ \E items \in Dicts :
       res' = [Call("__generate_dir_name_from_settings_value", OK) EXCEPT
                 !.items = items, !.asg = AsDict(items),
                 !.token = generate_dir_name_from_settings_value(items)]
  /\ UNCHANGED <<backend, caller, calls, fs, pr, pb, live, sent>>

\* on an entry name, or on the token that the call before returned
UnserializeAssignments ==
  /\ \E t \in Tokens \cup {res.token} :
       LET u == unserialize_assignments(t) IN
       res' = [Call("__unserialize_assignments", u.err) EXCEPT !.token = t, !.asg = u.val]
  /\ UNCHANGED <<backend, caller, calls, fs, pr, pb, live, sent>>

ParseSettingsArgs ==
  /\ \E t \in SettingsStrings :
       LET u == parse_settings_args(t) IN
       res' = [Call("__parse_settings_args", u.err) EXCEPT !.token = t, !.asg = u.val]
  /\ UNCHANGED <<backend, caller, calls, fs, pr, pb, live, sent>>

InitCodec ==
  /\ backend \in Backends
  /\ caller = Caller(Schemas, Values)
  /\ fs = {}
  /\ pr = NoRegistry
  /\ pb = NoBinary
  /\ live = [n \in RegNames |-> Fresh]
  /\ sent = {}
  /\ res = NoCall
  /\ calls = NoCalls

NextCodec ==
  \/ SerializeAssignments
  \/ GenerateDirName
  \/ UnserializeAssignments
  \/ ParseSettingsArgs

SpecCodec == InitCodec /\ [][NextCodec]_vars

(* Two callers of add_package_binary on one registry, each with a          *)
(* registry object of its own (the same name and parameter list): a call   *)
(* is three steps, each with the storage accesses of its lines, and the    *)
(* steps of the two calls interleave.                                      *)

\* lines 170-181
BeginAdd(c) ==
  /\ calls[c].pc \in {"idle", "done"}
  /\ \E a \in Assignments(caller.values) :
       \E o \in add_package_binary_test(backend, fs, <<pr.name>>, pr.params, a) :
         calls' = [calls EXCEPT ![c] =
                     [pc |-> IF o.err = OK THEN "183" ELSE "done",
                      asg |-> a, name |-> o.val, err |-> o.err,
                      overlap |-> \E d \in Callers \ {c} :
                                    calls[d].pc = "183" /\ calls[d].asg = a]]
  /\ UNCHANGED <<backend, caller, fs, pr, pb, live, sent, res>>

\* line 183
AddWrapper(c) ==
  /\ calls[c].pc = "183"
  /\ \E o \in mkdir(backend, fs, <<pr.name>>, calls[c].name) :
       /\ Within(o)
       /\ fs' = o.fs
       /\ calls' = [calls EXCEPT ![c].pc = IF o.err = OK THEN "184" ELSE "done",
                                 ![c].err = o.err]
  /\ UNCHANGED <<backend, caller, pr, pb, live, sent, res>>

\* line 184
AddMarker(c) ==
  /\ calls[c].pc = "184"
  /\ \E o \in add_marker(backend, fs, <<pr.name>>, calls[c].name,
                         serialize_assignments(calls[c].asg)) :
       /\ Within(o)
       /\ fs' = o.fs
       /\ calls' = [calls EXCEPT ![c].pc = "done", ![c].err = o.err]
  /\ UNCHANGED <<backend, caller, pr, pb, live, sent, res>>

InitRace ==
  /\ backend \in Backends
  /\ caller = Caller(Schemas, Values)
  /\ \E name \in RegNames, sk \in Schemas :
       \E a \in add_package_registry(backend, {}, name, sk) :
         /\ a.err = OK
         /\ \E g \in get_package_registry(backend, a.fs, name) :
              /\ g.err = OK
              /\ fs = g.fs
              /\ pr = [held |-> TRUE, name |-> name, params |-> g.val]
              /\ live = [n \in RegNames |-> IF n = name THEN Added(sk) ELSE Fresh]
  /\ pb = NoBinary
  /\ sent = {}
  /\ res = NoCall
  /\ calls = NoCalls

NextRace ==
  \E c \in Callers :
    \/ BeginAdd(c)
    \/ AddWrapper(c)
    \/ AddMarker(c)

SpecRace == InitRace /\ [][NextRace]_vars

(* The client alone: ls, mkdir, rmdir and dispatch_subdir called on the     *)
(* client of the root with the names of ClientNames, and mkdir and rmdir   *)
(* on the client that dispatch_subdir returned.  pb holds that client.     *)

ClientNames == {<<"p">>, <<"q">>}

ClientLs ==
  /\ \E o \in ls(backend, fs, pb.path) :
       /\ fs' = o.fs
       /\ res' = [Call("ls", o.err) EXCEPT !.path = pb.path, !.listed = o.val]
  /\ UNCHANGED <<backend, caller, calls, pr, pb, live, sent>>

ClientMkdir ==
  /\ \E name \in ClientNames :
       \E o \in mkdir(backend, fs, pb.path, name) :
         /\ Within(o)
         /\ fs' = o.fs
         /\ res' = [Call("mkdir", o.err) EXCEPT !.path = pb.path, !.name = name]
  /\ UNCHANGED <<backend, caller, calls, pr, pb, live, sent>>

ClientRmdir ==
  /\ \E name \in ClientNames :
       \E o \in rmdir(backend, fs, pb.path, name) :
         /\ fs' = o.fs
         /\ res' = [Call("rmdir", o.err) EXCEPT !.path = pb.path, !.name = name]
  /\ UNCHANGED <<backend, caller, calls, pr, pb, live, sent>>

\* dispatch_subdir on the client of the root; the caller keeps the client
ClientDispatch ==
  /\ \E name \in ClientNames :
       \E o \in dispatch_subdir(backend, fs, <<>>, name) :
         /\ Within(o)
         /\ fs' = o.fs
         /\ pb' = IF o.err = OK THEN [held |-> TRUE, path |-> o.val] ELSE pb
         /\ res' = [Call("dispatch_subdir", o.err) EXCEPT !.path = <<>>, !.name = name]
  /\ UNCHANGED <<backend, caller, calls, pr, live, sent>>

\* back to the client of the root
ClientRoot ==
  /\ pb.held
  /\ pb' = NoBinary
  /\ res' = Call("del", OK)
  /\ UNCHANGED <<backend, caller, calls, fs, pr, live, sent>>

NextClient ==
  \/ ClientLs
  \/ ClientMkdir
  \/ ClientRmdir
  \/ ClientDispatch
  \/ ClientRoot

SpecClient == Init /\ [][NextClient]_vars

(* The registry whose assignments and parameters change: reassign_binary   *)
(* next to add_package_binary, get_package_binary and upload_content;      *)
(* param_add and param_remove next to add_package_binary and               *)
(* list_package_binaries.                                                  *)

ReassignBinary ==
  /\ pr.held
  /\ \E old \in Assignments(caller.values), new \in Assignments(caller.values) :
       \E o \in reassign_binary(backend, fs, <<pr.name>>, pr.params, old, new) :
         /\ Within(o)
         /\ fs' = o.fs
         /\ res' = [Call("reassign_binary", o.err) EXCEPT !.asg = old, !.to = new]
  /\ UNCHANGED <<backend, caller, calls, pr, pb, live, sent>>

ParamAdd ==
  /\ pr.held
  /\ \E p \in {<<"o">>} \ SeqRange(pr.params), v \in caller.values :
       \E o \in param_add(backend, fs, <<pr.name>>, pr.params, p, v) :
         /\ Within(o)
         /\ fs' = o.fs
         /\ pr' = [pr EXCEPT !.params = o.val]
         /\ res' = [Call("param_add", o.err) EXCEPT !.param = p, !.value = v, !.params = o.val]
  /\ UNCHANGED <<backend, caller, calls, pb, live, sent>>

ParamRemove ==
  /\ pr.held
  /\ \E p \in SeqRange(pr.params) :
       \E o \in param_remove(backend, fs, <<pr.name>>, pr.params, p) :
         /\ Within(o)
         /\ fs' = o.fs
         /\ pr' = [pr EXCEPT !.params = o.val]
         /\ res' = [Call("param_remove", o.err) EXCEPT !.param = p, !.params = o.val]
  /\ UNCHANGED <<backend, caller, calls, pb, live, sent>>

NextReassign ==
  \/ AddBinary
  \/ GetBinary
  \/ Upload
  \/ ReassignBinary

SpecReassign == InitRace /\ [][NextReassign]_vars

NextEvolve ==
  \/ AddBinary
  \/ ListBinaries
  \/ ParamAdd
  \/ ParamRemove

SpecEvolve == InitRace /\ [][NextEvolve]_vars

(* The command 'pacco binary upload' next to the manager's calls that      *)
(* create and remove registries and to the calls that list and remove the  *)
(* binaries of a registry.                                                 *)

\* the dictionaries that __parse_settings_args returns have at least one key
BinaryUpload ==
  /\ \E name \in DOMAIN live, a \in {d \in Assignments(caller.values) : DOMAIN d # {}}, src \in Sources :
       \E o \in binary_upload(backend, fs, name, a, src) :
         /\ Within(o)
         /\ fs' = o.fs
         /\ sent' = IF o.err = OK
                    THEN {e \in sent : e[1] # o.val} \cup {<<o.val, src>>}
                    ELSE sent
         /\ res' = [Call("binary upload", o.err) EXCEPT
                     !.name = name, !.asg = a, !.src = src, !.path = o.val]
  /\ UNCHANGED <<backend, caller, calls, pr, pb, live>>

NextCli ==
  \/ AddRegistry
  \/ RemoveRegistry
  \/ GetRegistry
  \/ ListBinaries
  \/ RemoveBinary
  \/ BinaryUpload

SpecCli == Init /\ [][NextCli]_vars

(* The registry of classes.py: the state after                             *)
(* PackageManager.add_package_registry on an empty storage, then the       *)
(* methods of the registry and its constructor, called again on the same   *)
(* directory.                                                              *)

DirectAddBinary ==
  /\ pr.held
  /\ \E a \in Assignments(caller.values) :
       \E o \in PackageRegistry_add_package_binary(backend, fs, <<pr.name>>, pr.params, a) :
         /\ Within(o)
         /\ fs' = o.fs
         /\ live' = [live EXCEPT ![pr.name] =
                       IF o.err = OK THEN [@ EXCEPT !.added = @ \cup {a}]
                       ELSE [@ EXCEPT !.clean = FALSE]]
         /\ res' = [Call("add_package_binary", o.err) EXCEPT !.asg = a, !.entry = o.val]
  /\ UNCHANGED <<backend, caller, calls, pr, pb, sent>>

\* PackageRegistry.delete_package_binary of classes.py
DirectDeleteBinary ==
  /\ pr.held
  /\ \E a \in Assignments(caller.values) :
       \E o \in rmdir(backend, fs, <<pr.name>>, dir_name_from_settings_value(a)) :
         /\ fs' = o.fs
         /\ live' = [live EXCEPT ![pr.name] =
                       IF o.err = OK THEN [@ EXCEPT !.added = @ \ {a}]
                       ELSE [@ EXCEPT !.clean = FALSE]]
         /\ res' = [Call("delete_package_binary", o.err) EXCEPT !.asg = a]
  /\ UNCHANGED <<backend, caller, calls, pr, pb, sent>>

DirectListBinaries ==
  /\ pr.held
  /\ \E o \in PackageRegistry_list_package_binaries(backend, fs, <<pr.name>>, pr.params) :
       /\ fs' = o.fs
       /\ res' = [Call("list_package_binaries", o.err) EXCEPT !.names = o.val]
  /\ UNCHANGED <<backend, caller, calls, pr, pb, live, sent>>

\* PackageRegistry(name, client.dispatch_subdir(name)), as
\* PackageManager.list_package_registries constructs it (classes.py 44)
DirectNewRegistry ==
  /\ pr.held
  /\ \E d \in dispatch_subdir(backend, fs, <<>>, pr.name) :
       \E o \in PackageRegistry_init(backend, d.fs, d.val, None) :
         /\ fs' = o.fs
         /\ pr' = IF o.err = OK THEN [pr EXCEPT !.params = o.val] ELSE pr
         /\ res' = [Call("__init__", o.err) EXCEPT !.name = pr.name, !.params = o.val]
  /\ UNCHANGED <<backend, caller, calls, pb, live, sent>>

\* the values a caller passes: a word, and the word of the schema marker
InitDirect ==
  /\ backend \in Backends
  /\ caller = Caller(Schemas, {<<"x">>, settings_key_prefix})
  /\ \E name \in RegNames, sk \in Schemas :
       \E k \in mkdir(backend, {}, <<>>, name) :
       \E d \in dispatch_subdir(backend, k.fs, <<>>, name) :
       \E a \in PackageRegistry_init(backend, d.fs, d.val, Some(sk)) :
         /\ k.err = OK
         /\ a.err = OK
         /\ fs = a.fs
         /\ pr = [held |-> TRUE, name |-> name, params |-> a.val]
         /\ live = [n \in RegNames |-> IF n = name THEN Added(sk) ELSE Fresh]
  /\ pb = NoBinary
  /\ sent = {}
  /\ res = NoCall
  /\ calls = NoCalls

NextDirect ==
  \/ DirectAddBinary
  \/ DirectDeleteBinary
  \/ DirectListBinaries
  \/ DirectNewRegistry

SpecDirect == InitDirect /\ [][NextDirect]_vars

(* The schema of a registry: the manager's calls that create, read and      *)
(* remove registries, the constructor of the registry called by the caller *)
(* itself, the methods of the registry object, and upload_content, which   *)
(* writes below the directory of a registry.                               *)

NextSchema ==
  \/ AddRegistry
  \/ RemoveRegistry
  \/ GetRegistry
  \/ NewRegistry
  \/ ListBinaries
  \/ AddBinary
  \/ RemoveBinary
  \/ GetBinary
  \/ Upload

SpecSchema == Init /\ [][NextSchema]_vars

----------------------------------------------------------------------------
(* The registry as the object reg sees it in the storage f *)

\* the wrapper entries: the entries of the registry but the schema marker
Wrappers(f, reg) == Children(f, <<reg.name>>) \ {serialize_params(reg.params)}

\* the wrapper entries that hold the marker of the assignment a
Holders(f, reg, a) ==
  {w \in Wrappers(f, reg) : serialize_assignments(a) \in Markers(f, <<reg.name>>, w)}

\* the schema markers in the directory of the registry name
SchemaMarkers(f, name) == {n \in Children(f, <<name>>) : Contains(n, params_prefix)}

\* key=value with a key and a value of word characters
PairMatch(s) ==
  \E i \in 2..(Len(s) - 1) :
    /\ s[i] = "="
    /\ \A j \in 1..Len(s) : j # i => s[j] \in WordChars

\* the pattern of __unserialize_assignments matched against the whole of s
FullMatch(s) ==
  LET parts == Split(s, Sep) IN \A i \in 1..Len(parts) : PairMatch(parts[i])

\* what list_package_binaries can raise and the length of what it returns
ListCount(f, reg) ==
  {<<o.err, o.val.count>> : o \in list_package_binaries(backend, f, <<reg.name>>, reg.params)}

\* the directory last uploaded through a binary object on path, if any
SentTo(path) == {e[2] : e \in {x \in sent : x[1] = path}}

----------------------------------------------------------------------------
(* Properties *)

\* C1: in every state reached by add_package_binary and
\* remove_package_binary calls on one registry, every wrapper entry holds
\* exactly one assignment marker and no two wrapper entries hold the same
\* marker.
C1_Bijection ==
  pr.held =>
    /\ \A w \in Wrappers(fs, pr) : Cardinality(Markers(fs, <<pr.name>>, w)) = 1
    /\ \A w1, w2 \in Wrappers(fs, pr) :
         w1 # w2 => Markers(fs, <<pr.name>>, w1) \cap Markers(fs, <<pr.name>>, w2) = {}

\* C2: when every add_package_binary and remove_package_binary call on the
\* registry succeeded, list_package_binaries returns exactly the assignments
\* added and not removed since.
C2_ListIsAddedNotRemoved ==
  (res.op = "list_package_binaries" /\ live[pr.name].clean)
    => (res.err = OK /\ res.listed = live[pr.name].added)

\* C3: add_package_binary(a) for an assignment a that is present in the
\* registry (added and not removed since, its marker in a wrapper entry)
\* raises FileExistsError and leaves the number of listed binaries unchanged.
C3_AddTwiceFails ==
  [][(/\ res'.op = "add_package_binary"
      /\ res'.asg \in live[pr.name].added
      /\ Holders(fs, pr, res'.asg) # {})
       => (res'.err = FileExistsError /\ ListCount(fs', pr) = ListCount(fs, pr))]_vars

\* C4: add_package_binary(a) with keys that differ from the parameters of
\* the registry raises KeyError and leaves the storage as it was.
C4_WrongKeyRejected ==
  [][(res'.op = "add_package_binary" /\ DOMAIN res'.asg # SeqRange(pr.params))
       => (res'.err = KeyError /\ fs' = fs)]_vars

C4_Witness ==
  /\ res.op = "add_package_binary"
  /\ DOMAIN res.asg # SeqRange(pr.params)
  /\ res.err = KeyError
  /\ Wrappers(fs, pr) # {}

\* C5: remove_package_binary(a) for an assignment a with the keys of the
\* registry that is not in it (never added, or removed since) raises
\* FileNotFoundError, as get_package_binary does, and leaves the storage as
\* it was.
C5_RemoveAbsentNotFound ==
  [][(/\ res'.op = "remove_package_binary"
      /\ DOMAIN res'.asg = SeqRange(pr.params)
      /\ res'.asg \notin live[pr.name].added)
       => (res'.err = FileNotFoundError /\ fs' = fs)]_vars

\* C6: get_package_binary(a) raises KeyError when the keys of a differ from
\* the parameters, raises FileNotFoundError when they match and no entry
\* holds the marker of a, and otherwise returns a binary whose client is on
\* an entry that holds the marker of a.
C6_GetBinary ==
  [][res'.op = "get_package_binary"
       => IF DOMAIN res'.asg # SeqRange(pr.params) THEN res'.err = KeyError
          ELSE IF Holders(fs, pr, res'.asg) = {} THEN res'.err = FileNotFoundError
          ELSE /\ res'.err = OK
               /\ pb'.held
               /\ pb'.path \in {<<pr.name, w>> : w \in Holders(fs, pr, res'.asg)}]_vars

\* C7: after upload_content(src) through a binary object, download_content
\* into a destination that does not exist yet, through a binary object on
\* the same entry, succeeds and yields exactly the files of src, with either
\* client.
C7_UploadDownload ==
  [][(res'.op = "download_content" /\ res'.dest = NoDir /\ SentTo(pb.path) # {})
       => (res'.err = OK /\ \A src \in SentTo(pb.path) : res'.got = Dir(src))]_vars

\* C8: download_content on a binary to which nothing was ever uploaded raises
\* FileNotFoundError and leaves the destination as it was, absent if it was
\* absent.
C8_DownloadWithoutUpload ==
  [][(res'.op = "download_content" /\ SentTo(pb.path) = {})
       => (res'.err = FileNotFoundError /\ res'.got = res'.dest)]_vars

\* C9: upload_content(s2) on a binary that holds the payload of an earlier
\* upload_content(s1) leaves exactly the files of s2 as the payload and
\* leaves the assignment marker of the binary as it was.
C9_UploadReplaces ==
  [][(res'.op = "upload_content" /\ SentTo(pb.path) # {})
       => /\ res'.err = OK
          /\ Append(pb.path, bin) \in fs'
          /\ Children(fs', Append(pb.path, bin)) = res'.src
          /\ Children(fs', pb.path) \ {bin} = Children(fs, pb.path) \ {bin}]_vars

\* C10: add_package_registry(name, params) for a name that is an entry of
\* the manager already raises FileExistsError and leaves the storage as it
\* was, the schema marker and the binaries of the registry included.
C10_AddRegistryTwice ==
  [][(res'.op = "add_package_registry" /\ res'.name \in Children(fs, <<>>))
       => (res'.err = FileExistsError /\ fs' = fs)]_vars

C10_Witness ==
  /\ res.op = "add_package_registry"
  /\ res.err = FileExistsError
  /\ \E path \in fs : Len(path) = 3 /\ path[1] = res.name /\ path[3] # bin

\* C11: once remove_package_registry(name) succeeded, get_package_registry(name)
\* raises FileNotFoundError until add_package_registry(name, ...) succeeds
\* again, whatever the caller does in between with the objects it still
\* holds.
C11_GetAfterRemove ==
  [][(res'.op = "get_package_registry" /\ live[res'.name].reg = "removed")
       => (res'.err = FileNotFoundError /\ pr' = pr)]_vars

C11_Witness ==
  /\ res.op = "get_package_registry"
  /\ live[res.name].reg = "removed"
  /\ res.err = FileNotFoundError
  /\ pr.held /\ pr.name = res.name

\* C12: list_package_registries returns, sorted, exactly the names added with
\* success and not removed since; a successful remove_package_registry(name)
\* leaves the entries of every other registry (its name, its schema marker,
\* its binaries) as they were.
C12_ListRegistries ==
  /\ [](res.op = "list_package_registries"
          => /\ res.err = OK
             /\ res.names = SortedSet({n \in DOMAIN live : live[n].reg = "added"}))
  /\ [][(res'.op = "remove_package_registry" /\ res'.err = OK)
          => \A n \in DOMAIN live \ {res'.name} :
               Subtree(fs', <<n>>) = Subtree(fs, <<n>>)]_vars

C12_Witness ==
  /\ res.op = "list_package_registries"
  /\ \E n \in DOMAIN live : live[n].reg = "removed"
  /\ \E n \in DOMAIN live : live[n].reg = "added" /\ live[n].added # {}

\* C13: the constructor called with a parameter list on a directory that
\* holds a schema marker succeeds, takes the parameters of the marker and
\* leaves the storage as it was; no construction of a registry and no call on
\* a registry object changes the schema markers of a directory that holds
\* one.
C13_RemoteSchemaWins ==
  /\ [][(res'.op = "__init__" /\ res'.declared /\ SchemaMarkers(fs, res'.name) # {})
          => /\ res'.err = OK
             /\ fs' = fs
             /\ Some(res'.params) \in remote_params(Children(fs, <<res'.name>>))
             /\ pr'.params = res'.params]_vars
  /\ [][res'.op \in {"__init__", "get_package_registry", "list_package_binaries",
                      "add_package_binary", "remove_package_binary", "get_package_binary"}
          => \A n \in DOMAIN live :
               SchemaMarkers(fs, n) # {} => SchemaMarkers(fs', n) = SchemaMarkers(fs, n)]_vars

C13_Witness ==
  /\ res.op = "__init__"
  /\ res.declared
  /\ res.err = OK
  /\ Sorted(res.sk) # res.params
  /\ SchemaMarkers(fs, res.name) = {serialize_params(res.params)}
  /\ Wrappers(fs, pr) # {}

\* C14: the constructor called without a parameter list on a directory that
\* holds no schema marker raises FileNotFoundError and leaves the storage as
\* the creation of its client left it; get_package_registry on a name whose
\* directory holds no schema marker raises FileNotFoundError and leaves the
\* storage as it was.
C14_UndeclaredNotFound ==
  /\ [][(res'.op = "__init__" /\ ~res'.declared /\ SchemaMarkers(fs, res'.name) = {})
          => /\ res'.err = FileNotFoundError
             /\ fs' \in {d.fs : d \in dispatch_subdir(backend, fs, <<>>, res'.name)}
             /\ pr' = pr]_vars
  /\ [][(res'.op = "get_package_registry" /\ SchemaMarkers(fs, res'.name) = {})
          => /\ res'.err = FileNotFoundError
             /\ fs' = fs
             /\ pr' = pr]_vars

C14_Witness ==
  /\ res.op = "get_package_registry"
  /\ res.name \in Children(fs, <<>>)
  /\ SchemaMarkers(fs, res.name) = {}
  /\ res.err = FileNotFoundError
  /\ backend = Local

\* C15: get_package_registry(name) on a registry that add_package_registry(name,
\* names) created returns a registry whose parameters are the sorted list of
\* names, for every list of distinct names.
C15_SchemaRoundTrip ==
  [][(res'.op = "get_package_registry" /\ live[res'.name].reg = "added")
       => (res'.err = OK /\ res'.params = Sorted(live[res'.name].sk))]_vars

\* C16: every assignment that list_package_binaries returns has exactly the
\* parameters of the registry as its keys.
C16_ListedKeysAreSchema ==
  (res.op = "list_package_binaries" /\ res.err = OK)
    => \A a \in res.listed : DOMAIN a = SeqRange(pr.params)

\* C17: __unserialize_assignments applied to the token that
\* __serialize_assignments returned for a dictionary returns that dictionary.
C17_AssignmentRoundTrip ==
  [][(/\ res.op = "__serialize_assignments"
      /\ res'.op = "__unserialize_assignments"
      /\ res'.token = res.token)
       => (res'.err = OK /\ res'.asg = res.asg)]_vars

\* C18: two dictionaries with the same keys and values serialize to the same
\* token whatever the order of their items, with __serialize_assignments and
\* with __generate_dir_name_from_settings_value, and the token is the one
\* that the registry computes from the dictionary.
C18_OrderInvariant ==
  /\ [][(/\ res.op \in {"__serialize_assignments", "__generate_dir_name_from_settings_value"}
         /\ res'.op = res.op
         /\ res'.asg = res.asg)
          => res'.token = res.token]_vars
  /\ [](res.op \in {"__serialize_assignments", "__generate_dir_name_from_settings_value"}
          => res.token = serialize_assignments(res.asg))

C18_Witness ==
  /\ res.op = "__generate_dir_name_from_settings_value"
  /\ Len(res.items) = 2
  /\ StrLess(res.items[2][1], res.items[1][1])
  /\ res.token = serialize_items(<<res.items[2], res.items[1]>>)

\* C19: add_package_binary(a) with a key or a value that holds '=' (and so
\* with one that holds '==') raises an exception and leaves the storage as it
\* was.
C19_EqualSignRejected ==
  [][(/\ res'.op = "add_package_binary"
      /\ \E k \in DOMAIN res'.asg : Contains(k, Eq) \/ Contains(res'.asg[k], Eq))
       => (res'.err # OK /\ fs' = fs)]_vars

\* C20: __unserialize_assignments raises ValueError for every entry name that
\* the pattern key=value(==key=value)* does not match over its whole length.
C20_StrictGrammar ==
  (res.op = "__unserialize_assignments" /\ ~FullMatch(res.token))
    => res.err = ValueError

\* C21: add_package_binary leaves every entry that the registry held before
\* the call as it was (no second marker in it), and when the name it drew is
\* the name of an entry of the registry the call raises an exception and
\* leaves the storage as it was.
C21_NoCollision ==
  [][res'.op = "add_package_binary"
       => /\ \A w \in Children(fs, <<pr.name>>) :
               Subtree(fs', <<pr.name, w>>) = Subtree(fs, <<pr.name, w>>)
          /\ (res'.entry \in Children(fs, <<pr.name>>)
                => (res'.err # OK /\ fs' = fs))]_vars

\* C22: a call of add_package_binary that has passed its presence test does
\* not test again: when another entry has come to hold the marker of its
\* assignment between its test and its own write of the marker, the write
\* does not raise FileExistsError, and after its success both entries carry
\* the assignment.
C22_CheckThenAct ==
  [][\A c \in Callers :
       (calls[c].pc = "184" /\ calls'[c].pc = "done")
         => \A w \in Holders(fs, pr, calls[c].asg) \ {calls[c].name} :
              /\ calls'[c].err # FileExistsError
              /\ calls'[c].err = OK
                   => {w, calls[c].name} \subseteq Holders(fs', pr, calls[c].asg)]_vars

\* both calls passed the presence test before either wrote, both returned
\* without exception, and two entries carry the assignment
C22_Witness ==
  \E c \in Callers, d \in Callers :
    /\ c # d
    /\ calls[c].pc = "done" /\ calls[d].pc = "done"
    /\ calls[c].err = OK /\ calls[d].err = OK
    /\ calls[c].overlap
    /\ calls[c].asg = calls[d].asg
    /\ calls[c].name # calls[d].name
    /\ Holders(fs, pr, calls[c].asg) = {calls[c].name, calls[d].name}

\* C23: list_package_registries, get_package_registry, list_package_binaries,
\* get_package_binary and the end of a binary object leave the storage as it
\* was, and a call that changes the storage is one of add_package_registry,
\* remove_package_registry, add_package_binary, remove_package_binary and
\* upload_content.
C23_ReadsKeepStorage ==
  [][/\ res'.op \in {"list_package_registries", "get_package_registry",
                     "list_package_binaries", "get_package_binary", "del"}
        => fs' = fs
     /\ fs' # fs
        => res'.op \in {"add_package_registry", "remove_package_registry",
                        "add_package_binary", "remove_package_binary",
                        "upload_content"}]_vars

\* get_package_binary has returned a binary object on the Nexus backend,
\* whose client constructor posts the placeholder of the entry again
C23_Witness ==
  /\ backend = Nexus
  /\ res.op = "get_package_binary"
  /\ res.err = OK
  /\ pb.held
  /\ pb.path \in fs

\* C24: mkdir of a name that is present raises FileExistsError and changes
\* nothing; rmdir of a name that is absent raises FileNotFoundError and
\* changes nothing; rmdir of a name that is present removes the entry and
\* everything below it, and nothing else.
C24_BackendErrors ==
  [][LET p == Append(res'.path, res'.name) IN
     /\ (res'.op = "mkdir" /\ p \in fs)
          => (res'.err = FileExistsError /\ fs' = fs)
     /\ (res'.op = "rmdir" /\ p \notin fs)
          => (res'.err = FileNotFoundError /\ fs' = fs)
     /\ (res'.op = "rmdir" /\ p \in fs)
          => (res'.err = OK /\ fs' = fs \ Subtree(fs, p))]_vars

\* C25: on the Nexus backend every exception that ls, mkdir, rmdir or the
\* construction of a client raises for a response with a status outside
\* the accepted ones is ConnectionError.
C25_ConnectionFailure ==
  (backend = Nexus /\ res.op \in {"ls", "mkdir", "rmdir", "dispatch_subdir"}
     /\ res.err # OK)
    => res.err = ConnectionError

\* C26: reassign_binary(old, new) raises FileNotFoundError when no entry
\* holds old, FileExistsError when an entry holds old and an entry holds
\* new; when an entry holds old and none holds new it returns, the payload
\* of every entry is as it was, get_package_binary(old) raises
\* FileNotFoundError, and get_package_binary(new) returns a binary whose
\* download_content yields the files last uploaded to the entry.
C26_Reassign ==
  [][res'.op = "reassign_binary" /\ DOMAIN res'.asg = SeqRange(pr.params)
       /\ DOMAIN res'.to = SeqRange(pr.params)
       => LET base == <<pr.name>>
              had == Holders(fs, pr, res'.asg)
              used == Holders(fs, pr, res'.to)
          IN /\ had = {} => res'.err = FileNotFoundError
             /\ (had # {} /\ used # {}) => res'.err = FileExistsError
             /\ (had # {} /\ used = {})
                  => /\ res'.err = OK
                     /\ \A w \in Wrappers(fs, pr) :
                          Subtree(fs', <<pr.name, w, bin>>) = Subtree(fs, <<pr.name, w, bin>>)
                     /\ \A g \in get_package_binary(backend, fs', base, pr.params, res'.asg) :
                          g.err = FileNotFoundError
                     /\ \A g \in get_package_binary(backend, fs', base, pr.params, res'.to) :
                          /\ g.err = OK
                          /\ g.val \in {<<pr.name, w>> : w \in had}
                          /\ \A src \in SentTo(g.val) :
                               \A d \in download_content(backend, g.fs, g.val, NoDir) :
                                 d.err = OK /\ d.val = Dir(src)]_vars

C28_DownloadMerges ==
  [][(res'.op = "download_content" /\ res'.dest.exists /\ SentTo(pb.path) # {})
       => /\ res'.err = OK
          /\ \A src \in SentTo(pb.path) :
               res'.got = Dir(res'.dest.files \cup src)]_vars

\* the tokens of a settings string: the parts between the commas, without
\* the empty part after a trailing comma
SettingsTokens(s) ==
  LET parts == Split(s, <<",">>) IN
  IF Len(parts) > 1 /\ parts[Len(parts)] = <<>>
  THEN SubSeq(parts, 1, Len(parts) - 1) ELSE parts

\* the settings grammar, matched against the whole string: key=value tokens
\* of characters of [\w\-.] with commas between them and at most one comma
\* after the last
SettingsGrammar(s) ==
  \A i \in 1..Len(SettingsTokens(s)) :
    LET kv == Split(SettingsTokens(s)[i], Eq) IN
    /\ Len(kv) = 2
    /\ kv[1] # <<>> /\ kv[2] # <<>>
    /\ SeqRange(kv[1]) \cup SeqRange(kv[2]) \subseteq SettingsClass

\* C29: __parse_settings_args applied to a string of the settings grammar
\* returns, without exception, the dictionary whose keys are the keys of the
\* tokens, each with the value of a token of that key.
C29_GrammarParses ==
  (res.op = "__parse_settings_args" /\ SettingsGrammar(res.token))
    => /\ res.err = OK
       /\ DOMAIN res.asg = {Split(SettingsTokens(res.token)[i], Eq)[1]
                             : i \in 1..Len(SettingsTokens(res.token))}
       /\ \A k \in DOMAIN res.asg :
            \E i \in 1..Len(SettingsTokens(res.token)) :
              Split(SettingsTokens(res.token)[i], Eq) = <<k, res.asg[k]>>

\* C30: __parse_settings_args applied to a string that is not of the
\* settings grammar raises ValueError.
C30_OthersRejected ==
  (res.op = "__parse_settings_args" /\ ~SettingsGrammar(res.token))
    => res.err = ValueError

\* C31: a remove_package_binary(a) that returns removes one wrapper entry
\* with everything below it and nothing else; the entry removed holds the
\* marker of a and no other marker, so the wrapper entry, the marker and the
\* payload of every other binary and the schema marker stay as they were.
C31_RemoveOnlyOne ==
  [][(res'.op = "remove_package_binary" /\ res'.err = OK)
       => \E w \in Holders(fs, pr, res'.asg) :
            /\ Markers(fs, <<pr.name>>, w) = {serialize_assignments(res'.asg)}
            /\ fs' = fs \ Subtree(fs, <<pr.name, w>>)]_vars

\* C32: 'binary upload' on a registry that exists: with an assignment whose
\* keys are not the parameters of the registry it raises KeyError and
\* leaves the storage as it was; with an assignment whose keys are the
\* parameters it returns without exception, after which exactly one entry
\* holds the marker of the assignment, that entry is the one that held it
\* before if there was one, its payload is the uploaded directory, and
\* list_package_binaries returns without exception a list with the
\* assignment in it.
C32_UploadCreatesOrOverwrites ==
  [][(res'.op = "binary upload" /\ SchemaMarkers(fs, res'.name) # {})
       => \A r \in get_package_registry(backend, fs, res'.name) :
            LET reg == [held |-> TRUE, name |-> res'.name, params |-> r.val]
                a == res'.asg
            IN IF DOMAIN a # SeqRange(r.val)
               THEN res'.err = KeyError /\ fs' = fs
               ELSE /\ res'.err = OK
                    /\ Cardinality(Holders(fs', reg, a)) = 1
                    /\ Holders(fs, reg, a) \subseteq Holders(fs', reg, a)
                    /\ \A w \in Holders(fs', reg, a) :
                         Children(fs', <<res'.name, w, bin>>) = res'.src
                    /\ \A l \in list_package_binaries(backend, fs', <<res'.name>>, r.val) :
                         l.err = OK /\ a \in l.val.listed]_vars

\* C33: when add_package_binary raises from the mkdir of the wrapper entry
\* or from the mkdir of the marker, on a registry that list_package_binaries
\* could list before the call, list_package_binaries after the call returns
\* without exception what it returned before.
C33_FailedAddKeepsListing ==
  [][(res'.op = "add_package_binary" /\ res'.err # OK /\ res'.entry # <<>>
        /\ \A l \in list_package_binaries(backend, fs, <<pr.name>>, pr.params) : l.err = OK)
       => \A l \in list_package_binaries(backend, fs', <<pr.name>>, pr.params) :
            /\ l.err = OK
            /\ l.val \in {k.val : k \in list_package_binaries(backend, fs, <<pr.name>>, pr.params)}]_vars

\* C34: in the registry of classes.py, add_package_binary creates the entry
\* named by the serialized assignment and nothing else; the constructor
\* called again on the directory returns the parameter list the registry
\* was added with; list_package_binaries returns the sorted names of the
\* binaries added and not deleted.
C34_DirectScheme ==
  [][/\ (res'.op = "add_package_binary" /\ res'.err = OK)
          => /\ res'.entry = dir_name_from_settings_value(res'.asg)
             /\ fs' = fs \cup {<<pr.name, res'.entry>>}
     /\ res'.op = "__init__"
          => (res'.err = OK /\ res'.params = Sorted(live[pr.name].sk))
     /\ res'.op = "list_package_binaries"
          => /\ res'.err = OK
             /\ res'.names =
                  SortedSet({dir_name_from_settings_value(a) : a \in live[pr.name].added})]_vars

====
